---- MODULE Spec2Model ----
(***************************************************************************)
(* Model of src/main.py: a Streamlit page that loads an uploaded CSV file, *)
(* lets the user pick a numeric target column and shows the correlation    *)
(* of every other numeric column with it (summary, scatter charts of the   *)
(* five strongest columns, heatmap).                                       *)
(*                                                                         *)
(* A data frame is a sequence of columns [name, dtype, values].  Pearson   *)
(* coefficients are kept exact: r = sgn * sqrt(num / den) with num / den   *)
(* in lowest terms, and den = 0 standing for NaN.                          *)
(*                                                                         *)
(* Series.sort_values is called with its default kind = 'quicksort', which *)
(* pandas documents as not stable: the order of equal keys is whatever the *)
(* numpy build produces.  The model takes every order of equal keys as a   *)
(* possible outcome.  NaN keys are appended in their original order        *)
(* (na_position = 'last').                                                 *)
(*                                                                         *)
(* Column names are ASCII here: "bodyfat" stands for the name the source    *)
(* uses as the default target.                                             *)
(***************************************************************************)
EXTENDS Integers, Sequences, FiniteSets

VARIABLES
    user_file,        \* the file the user has at hand (environment input)
    uploaded_file,    \* value of the file_uploader widget: <<>> (None) or <<file>>
    df,               \* data frame in use: <<>> (None) or <<frame>>
    target_column,    \* target handed to analyze_correlation
    corr_series,      \* first output:  <<>> (None) or <<series>>
    full_corr_matrix, \* second output: <<>> (None) or <<matrix>>
    top_5_cols,       \* third output:  <<>> (None) or <<sequence of names>>
    page,             \* elements rendered by the current run, in order
    picks,            \* selectbox changes since the upload
    pc                \* position of a direct call of analyze_correlation

vars == <<user_file, uploaded_file, df, target_column, corr_series,
          full_corr_matrix, top_5_cols, page, picks, pc>>

-----------------------------------------------------------------------------
(* Bounds *)

\* Largest number of columns of a data frame.
MaxCols == 8

\* Largest number of selectbox changes after an upload.
MaxPicks == 1

-----------------------------------------------------------------------------
(* Python values *)

None == <<>>
Some(x) == <<x>>
IsNone(o) == o = <<>>
Val(o) == o[1]

\* The target when the selectbox has no option to return.
NoTarget == "<None>"

\* Name of the column the selectbox preselects (main.py line 83).
DefaultTarget == "bodyfat"

\* head(5) of main.py line 52.
TopK == 5

Range(s) == { s[i] : i \in 1..Len(s) }

Min2(a, b) == IF a < b THEN a ELSE b

AbsInt(n) == IF n < 0 THEN -n ELSE n

Reverse(s) == [ i \in 1..Len(s) |-> s[Len(s) + 1 - i] ]

\* s without the elements that fail Keep, order kept.
RECURSIVE Filter(_, _)
Filter(s, keep) ==
    IF s = <<>> THEN <<>>
    ELSE (IF Head(s) \in keep THEN <<Head(s)>> ELSE <<>>) \o Filter(Tail(s), keep)

\* Position of the first occurrence of x in s (list.index).
RECURSIVE IndexOf(_, _)
IndexOf(s, x) == IF Head(s) = x THEN 1 ELSE 1 + IndexOf(Tail(s), x)

-----------------------------------------------------------------------------
(* Data frames *)

Col(n, t, v) == [name |-> n, dtype |-> t, values |-> v]

Columns(frame) == [ i \in 1..Len(frame) |-> frame[i].name ]

ColumnOf(frame, n) == CHOOSE c \in Range(frame) : c.name = n

\* df.select_dtypes(include=np.number): the columns of a numeric dtype, in
\* their order in df.
RECURSIVE select_dtypes_number(_)
select_dtypes_number(frame) ==
    IF frame = <<>> THEN <<>>
    ELSE (IF Head(frame).dtype = "number" THEN <<Head(frame)>> ELSE <<>>)
         \o select_dtypes_number(Tail(frame))

-----------------------------------------------------------------------------
(* Pearson coefficients, DataFrame.corr() *)

NaN == [sgn |-> 0, num |-> 0, den |-> 0]

IsNaN(c) == c.den = 0

RECURSIVE GCD(_, _)
GCD(a, b) == IF b = 0 THEN a ELSE GCD(b, a % b)

RECURSIVE SumProd(_, _)
SumProd(x, y) ==
    IF x = <<>> THEN 0 ELSE Head(x) * Head(y) + SumProd(Tail(x), Tail(y))

RECURSIVE Sum(_)
Sum(x) == IF x = <<>> THEN 0 ELSE Head(x) + Sum(Tail(x))

\* n * (sum of products) - (product of sums): n^2 times the covariance.
Cross(x, y) == Len(x) * SumProd(x, y) - Sum(x) * Sum(y)

Sgn(n) == IF n > 0 THEN 1 ELSE IF n < 0 THEN -1 ELSE 0

\* Pearson's r of two value columns; NaN when either has zero variance.
Pearson(x, y) ==
    LET sxy == Cross(x, y)
        sxx == Cross(x, x)
        syy == Cross(y, y)
        n   == sxy * sxy
        d   == sxx * syy
        g   == GCD(d, n)
    IN  IF d = 0 THEN NaN
        ELSE [sgn |-> Sgn(sxy), num |-> n \div g, den |-> d \div g]

\* numeric_df.corr(): one coefficient per ordered pair of column names.
Corr(numeric_df) ==
    [ a \in Range(Columns(numeric_df)) |->
        [ b \in Range(Columns(numeric_df)) |->
            Pearson(ColumnOf(numeric_df, a).values, ColumnOf(numeric_df, b).values) ] ]

\* c1 < c2 for two defined coefficients.
Less(c1, c2) == c1.sgn * c1.num * c2.den < c2.sgn * c2.num * c1.den

\* Series.abs() on one value.
AbsCoef(c) == [c EXCEPT !.sgn = AbsInt(c.sgn)]

-----------------------------------------------------------------------------
(* A Series: a sequence of entries [name, r], in index order.              *)

Entry(n, r) == [name |-> n, r |-> r]

RECURSIVE Index(_)
Index(ser) == IF ser = <<>> THEN <<>> ELSE <<Head(ser).name>> \o Index(Tail(ser))

Keys(ser) == { ser[i].name : i \in 1..Len(ser) }

\* ser[label].
At(ser, label) == (CHOOSE e \in Range(ser) : e.name = label).r

\* Every order of the entries in S with non-increasing value.
RECURSIVE DescOrders(_)
DescOrders(S) ==
    IF S = {} THEN {<<>>}
    ELSE UNION { { <<x>> \o s : s \in DescOrders(S \ {x}) } :
                 x \in { m \in S : \A o \in S : ~Less(m.r, o.r) } }

\* Faulty variant of sort_values_desc: ascending order (ascending=False left out).
sort_values_asc(ser) ==
    LET isnan == { e \in Range(ser) : IsNaN(e.r) }
    IN  { Reverse(s) \o Filter(ser, isnan) : s \in DescOrders(Range(ser) \ isnan) }

\* Faulty variant of sort_values_desc: the NaN entries first (na_position='first').
sort_values_nan_first(ser) ==
    LET isnan == { e \in Range(ser) : IsNaN(e.r) }
    IN  { Filter(ser, isnan) \o s : s \in DescOrders(Range(ser) \ isnan) }

\* Series.sort_values(ascending=False): the defined values in descending
\* order, equal values in any order (kind = 'quicksort'), then the NaN
\* entries in the order they had (na_position = 'last').
sort_values_desc(ser) ==
    LET isnan == { e \in Range(ser) : IsNaN(e.r) }
    IN  { s \o Filter(ser, isnan) : s \in DescOrders(Range(ser) \ isnan) }

\* Faulty variant of drop: the label stays.
drop_nothing(ser, label) == ser

\* Series.drop(label, errors='ignore').
drop(ser, label) == Filter(ser, { e \in Range(ser) : e.name # label })

\* Series.abs().
RECURSIVE abs(_)
abs(ser) ==
    IF ser = <<>> THEN <<>>
    ELSE <<Entry(Head(ser).name, AbsCoef(Head(ser).r))>> \o abs(Tail(ser))

\* Faulty variant of head: one entry short.
head_one_short(ser, n) == SubSeq(ser, 1, Min2(n - 1, Len(ser)))

\* Series.head(n).
head(ser, n) == SubSeq(ser, 1, Min2(n, Len(ser)))

\* numeric_df.corr()[target_col]: the target's column of the matrix, indexed
\* by the numeric column names in data frame order.
RECURSIVE corr_column(_, _)
corr_column(numeric_df, target_values) ==
    IF numeric_df = <<>> THEN <<>>
    ELSE <<Entry(Head(numeric_df).name, Pearson(Head(numeric_df).values, target_values))>>
         \o corr_column(Tail(numeric_df), target_values)

\* Series.idxmax() / Series.idxmin(), NaN skipped: the label of the first
\* extreme value; "nan" when every value is NaN (pandas before 3.0).
RECURSIVE FirstIn(_, _)
FirstIn(ser, S) == IF Head(ser) \in S THEN Head(ser).name ELSE FirstIn(Tail(ser), S)

idxmax(ser) ==
    LET defined == { e \in Range(ser) : ~IsNaN(e.r) }
    IN  IF defined = {} THEN "nan"
        ELSE FirstIn(ser, { m \in defined : \A o \in defined : ~Less(m.r, o.r) })

idxmin(ser) ==
    LET defined == { e \in Range(ser) : ~IsNaN(e.r) }
    IN  IF defined = {} THEN "nan"
        ELSE FirstIn(ser, { m \in defined : \A o \in defined : ~Less(o.r, m.r) })

-----------------------------------------------------------------------------
(* Rendered elements *)

Elem(k, x, y, by) == [kind |-> k, x |-> x, y |-> y, by |-> by]

-----------------------------------------------------------------------------
(* analyze_correlation, main.py lines 36-55 *)

Outcome(s, m, t, msgs) ==
    [corr_series |-> s, full_corr_matrix |-> m, top_5_cols |-> t, msgs |-> msgs]

\* Line 46: the target is looked up among the numeric columns.
target_missing(numeric_df, target_col) == target_col \notin Range(Columns(numeric_df))

\* Lines 50-51: the target's correlations, sorted, without the target.
sorted_correlations(numeric_df, target_col) ==
    { drop(s, target_col) :
      s \in sort_values_desc(
                corr_column(numeric_df, ColumnOf(numeric_df, target_col).values)) }

\* Faulty variant of top_5_abs_corr: abs() left out, the signed values are ranked.
top_5_signed_corr(correlation_series) ==
    { Index(head(s, TopK)) : s \in sort_values_desc(correlation_series) }

\* Line 52: the names of the five entries of largest absolute value.
top_5_abs_corr(correlation_series) ==
    { Index(head(s, TopK)) : s \in sort_values_desc(abs(correlation_series)) }

\* Faulty variant of analyze_correlation: empty results, not None, for a missing target.
analyze_correlation_empty(frame, target_col) ==
    LET numeric_df == select_dtypes_number(frame)
    IN  IF target_missing(numeric_df, target_col)
        THEN { Outcome(Some(<<>>), Some(<<>>), Some(<<>>), <<>>) }
        ELSE UNION { { Outcome(Some(cs), Some(Corr(numeric_df)), Some(t5), <<>>) :
                       t5 \in top_5_abs_corr(cs) } :
                     cs \in sorted_correlations(numeric_df, target_col) }

\* The results the call can return, each with the messages it showed.
analyze_correlation(frame, target_col) ==
    LET numeric_df == select_dtypes_number(frame)
        full_corr  == Corr(numeric_df)
    IN  IF target_missing(numeric_df, target_col)
        THEN { Outcome(None, None, None,
                       <<Elem("warning", "no target column", target_col,
                              "analyze_correlation")>>) }
        ELSE UNION { { Outcome(Some(cs), Some(full_corr), Some(t5), <<>>) :
                       t5 \in top_5_abs_corr(cs) } :
                     cs \in sorted_correlations(numeric_df, target_col) }

-----------------------------------------------------------------------------
(* Input files *)

\* One layout of columns; the data frames of the model are the selections of
\* columns from it, taken in this order or in the reverse order.
Base ==
    << Col("notes",   "object", <<0, 0, 0, 0>>),
       Col("bodyfat", "number", <<0, 1, 2, 3>>),
       Col("weight",  "number", <<0, 1, 3, 2>>),
       Col("height",  "number", <<3, 2, 1, 0>>),
       Col("age",     "number", <<0, 0, 1, 3>>),
       Col("bmi",     "number", <<0, 0, 2, 1>>),
       Col("waist",   "number", <<1, 0, 0, 2>>),
       Col("hip",     "number", <<1, 0, 0, 2>>),
       Col("const",   "number", <<1, 1, 1, 1>>) >>

Names == Range(Columns(Base))

\* The columns of layout at the positions in S, in layout order.
RECURSIVE Pick(_, _, _)
Pick(layout, S, i) ==
    IF i > Len(layout) THEN <<>>
    ELSE (IF i \in S THEN <<layout[i]>> ELSE <<>>) \o Pick(layout, S, i + 1)

Frames ==
    { Pick(layout, S, 1) :
      layout \in {Base, Reverse(Base)},
      S \in { T \in SUBSET (1..Len(Base)) : Cardinality(T) \in 1..MaxCols } }

File(name, ext, parses, table) ==
    [name |-> name, ext |-> ext, parses |-> parses, table |-> table]

\* Files the uploader (type=['csv']) lets through: readable ones, one whose
\* extension is upper case and one that pandas cannot parse.
Files ==
    { File("data", "csv", TRUE, f) : f \in Frames }
    \cup { File("DATA", "CSV", TRUE, SubSeq(Base, 1, 3)), File("broken", "csv", FALSE, <<>>) }

\* str.lower() on the extensions that occur.
lower(ext) == IF ext = "CSV" THEN "csv" ELSE IF ext = "TXT" THEN "txt" ELSE ext

-----------------------------------------------------------------------------
(* load_data, main.py lines 12-34 *)

Loaded(frame, msgs) == [df |-> frame, msgs |-> msgs]

load_data(upl) ==
    IF IsNone(upl) THEN Loaded(None, <<>>)
    ELSE IF lower(Val(upl).ext) # "csv"
         THEN Loaded(None, <<Elem("error", "unsupported format", Val(upl).name, "load_data")>>)
         ELSE IF ~Val(upl).parses
              THEN Loaded(None, <<Elem("error", "load failed", Val(upl).name, "load_data")>>)
              ELSE Loaded(Some(Val(upl).table), <<>>)

-----------------------------------------------------------------------------
(* main, lines 58-145 *)

\* Lines 80-84: st.selectbox returns the option the user picked, else the
\* option at the default index, and None when there is no option.
selectbox(options, picked) ==
    IF options = <<>> THEN NoTarget
    ELSE IF picked \in Range(options) THEN picked
    ELSE options[IF DefaultTarget \in Range(options) THEN IndexOf(options, DefaultTarget) ELSE 1]

\* Faulty variant of shows_results: the test for an empty vector left out.
shows_results_not_none(out) == ~IsNone(out.corr_series)

\* Line 88: whether the results are shown.
shows_results(out) ==
    ~IsNone(out.corr_series) /\ Val(out.corr_series) # <<>>

\* Lines 115-125: one scatter chart per entry of top_5_cols.
scatter_charts(top_5, target) ==
    [ i \in 1..Len(top_5) |-> Elem("scatter", top_5[i], target, "main") ]

\* Faulty variant of render_results: the heatmap outside the if block.
render_results_heatmap_outside(out, target) ==
    (IF shows_results(out)
     THEN <<Elem("summary", idxmax(Val(out.corr_series)), idxmin(Val(out.corr_series)), "main")>>
          \o scatter_charts(Val(out.top_5_cols), target)
     ELSE <<Elem("warning", "cannot analyze", target, "main")>>)
    \o <<Elem("heatmap", "", "", "main")>>

\* Lines 88-143: what main renders from the returned triple.
render_results(out, target) ==
    IF shows_results(out)
    THEN <<Elem("summary", idxmax(Val(out.corr_series)), idxmin(Val(out.corr_series)), "main")>>
         \o scatter_charts(Val(out.top_5_cols), target)
         \o <<Elem("heatmap", "", "", "main")>>
    ELSE <<Elem("warning", "cannot analyze", target, "main")>>

\* One run of the script with the uploader holding upl and the selectbox
\* holding picked.
Run(upl, picked) ==
    LET ld == load_data(upl)
        title == <<Elem("title", "", "", "main")>>
    IN  /\ uploaded_file' = upl
        /\ df' = ld.df
        /\ IF IsNone(ld.df)
           THEN /\ target_column' = NoTarget
                /\ corr_series' = None
                /\ full_corr_matrix' = None
                /\ top_5_cols' = None
                /\ page' = title \o ld.msgs \o <<Elem("info", "upload a file", "", "main")>>
           ELSE LET numeric_cols == Columns(select_dtypes_number(Val(ld.df)))
                    target == selectbox(numeric_cols, picked)
                IN  \E out \in analyze_correlation(Val(ld.df), target) :
                        /\ target_column' = target
                        /\ corr_series' = out.corr_series
                        /\ full_corr_matrix' = out.full_corr_matrix
                        /\ top_5_cols' = out.top_5_cols
                        /\ page' = title
                                   \o <<Elem("success", Val(upl).name, "", "main")>>
                                   \o out.msgs
                                   \o render_results(out, target)

\* The page before any file is uploaded.
Init ==
    /\ user_file \in Files
    /\ uploaded_file = None
    /\ df = None
    /\ target_column = NoTarget
    /\ corr_series = None
    /\ full_corr_matrix = None
    /\ top_5_cols = None
    /\ page = <<Elem("title", "", "", "main"), Elem("info", "upload a file", "", "main")>>
    /\ picks = 0
    /\ pc = "main"

\* The user uploads the file; the script runs with the selectbox at its default.
Upload ==
    /\ IsNone(uploaded_file)
    /\ Run(Some(user_file), NoTarget)
    /\ picks' = 0
    /\ UNCHANGED <<user_file, pc>>

\* The user picks another target; the script runs again.
SelectTarget ==
    /\ ~IsNone(df)
    /\ picks < MaxPicks
    /\ picks' = picks + 1
    /\ \E t \in Range(Columns(select_dtypes_number(Val(df)))) :
           /\ t # target_column
           /\ Run(uploaded_file, t)
    /\ UNCHANGED <<user_file, pc>>

\* The user removes the file; the script runs again.
RemoveFile ==
    /\ ~IsNone(uploaded_file)
    /\ Run(None, NoTarget)
    /\ picks' = 0
    /\ UNCHANGED <<user_file, pc>>

Next == Upload \/ SelectTarget \/ RemoveFile

Spec == Init /\ [][Next]_vars

-----------------------------------------------------------------------------
(* analyze_correlation called on any data frame with any target, followed  *)
(* by the caller's lines 88-143.                                           *)

CallTargets == Names \cup {NoTarget, "absent"}

InitCall ==
    /\ user_file \in { f \in Files : f.parses /\ f.ext = "csv" }
    /\ uploaded_file = Some(user_file)
    /\ df = Some(user_file.table)
    /\ target_column \in CallTargets
    /\ corr_series = None
    /\ full_corr_matrix = None
    /\ top_5_cols = None
    /\ page = <<>>
    /\ picks = 0
    /\ pc = "call"

\* Line 86: the call and its return.
Analyze ==
    /\ pc = "call"
    /\ \E out \in analyze_correlation(Val(df), target_column) :
           /\ corr_series' = out.corr_series
           /\ full_corr_matrix' = out.full_corr_matrix
           /\ top_5_cols' = out.top_5_cols
           /\ page' = page \o out.msgs
    /\ pc' = "returned"
    /\ UNCHANGED <<user_file, uploaded_file, df, target_column, picks>>

\* Lines 88-143 on the returned triple.
Render ==
    /\ pc = "returned"
    /\ page' = page \o render_results(
                   Outcome(corr_series, full_corr_matrix, top_5_cols, <<>>), target_column)
    /\ pc' = "done"
    /\ UNCHANGED <<user_file, uploaded_file, df, target_column, corr_series,
                   full_corr_matrix, top_5_cols, picks>>

NextCall == Analyze \/ Render

SpecCall == InitCall /\ [][NextCall]_vars

-----------------------------------------------------------------------------
(* Vocabulary of the properties *)

\* Names of the numeric columns of the data frame in use.
NumericNames == { c.name : c \in { d \in Range(Val(df)) : d.dtype = "number" } }

AllNames == { c.name : c \in Range(Val(df)) }

\* analyze_correlation has returned (direct call).
Returned == pc \in {"returned", "done"}

TargetPresent == target_column \in NumericNames

IsChart(e) == e.kind \in {"summary", "scatter", "heatmap"}

Charts == SelectSeq(page, IsChart)

ByAnalyzer(e) == e.by = "analyze_correlation"

MainWarning == Elem("warning", "cannot analyze", target_column, "main")

\* Position of name n in the sequence of names s.
Pos(s, n) == CHOOSE i \in 1..Len(s) : s[i] = n

\* Coefficient of key n of the returned correlation vector, and its magnitude.
Coef(n) == At(Val(corr_series), n)

Mag(n) == AbsCoef(Coef(n))

Defined(n) == ~IsNaN(Coef(n))

DefinedKeys == { n \in Keys(Val(corr_series)) : Defined(n) }

-----------------------------------------------------------------------------
(* C1 *)

\* C1: when the target is not the name of a numeric column (a text column's
\* name included) analyze_correlation returns None for all three outputs, and
\* the caller then renders no summary, scatter chart or heatmap and reaches
\* its end with the warning of line 143.
C1_MissingTargetNoResult ==
    (Returned /\ ~TargetPresent) =>
        /\ IsNone(corr_series) /\ IsNone(full_corr_matrix) /\ IsNone(top_5_cols)
        /\ (pc = "done" => Charts = <<>> /\ page[Len(page)] = MainWarning)

C1_Witness ==
    /\ pc = "done"
    /\ target_column = "notes"
    /\ "notes" \in AllNames
    /\ NumericNames # {}

-----------------------------------------------------------------------------
(* C2 *)

\* C2: for a target among the numeric columns the top-K list has exactly
\* min(5, n) entries, n the number of keys of the correlation vector, has no
\* repeated entry, and every entry is a key of the correlation vector.
C2_TopKLength ==
    (Returned /\ TargetPresent) =>
        LET t == Val(top_5_cols)
            keys == Keys(Val(corr_series))
        IN  /\ Len(t) = Min2(5, Cardinality(keys))
            /\ Cardinality(Range(t)) = Len(t)
            /\ Range(t) \subseteq keys

C2_Witness ==
    /\ Returned /\ TargetPresent
    /\ Cardinality(Keys(Val(corr_series))) = 7
    /\ Len(Val(top_5_cols)) = 5

-----------------------------------------------------------------------------
(* C3 *)

\* C3: along the top-K list the absolute correlation is non-increasing and
\* undefined entries come after all defined ones; a key left out of the list
\* has an absolute coefficient no greater than any defined entry of the list,
\* and no undefined entry is in the list while a defined key is left out.
C3_TopKRanking ==
    (Returned /\ TargetPresent) =>
        LET t == Val(top_5_cols)
            out == Keys(Val(corr_series)) \ Range(t)
        IN  /\ \A i, j \in 1..Len(t) :
                   i < j => /\ (Defined(t[i]) /\ Defined(t[j])) => ~Less(Mag(t[i]), Mag(t[j]))
                            /\ ~Defined(t[i]) => ~Defined(t[j])
            /\ \A k \in out : \A i \in 1..Len(t) :
                   /\ (Defined(k) /\ Defined(t[i])) => ~Less(Mag(t[i]), Mag(k))
                   /\ Defined(k) => Defined(t[i])

C3_Witness ==
    /\ Returned /\ TargetPresent
    /\ LET t == Val(top_5_cols)
       IN  /\ Len(t) = 5
           /\ Defined(t[1]) /\ Defined(t[5]) /\ Less(Mag(t[5]), Mag(t[1]))
           /\ \E k \in Keys(Val(corr_series)) \ Range(t) : ~Defined(k)
           /\ \E k \in Keys(Val(corr_series)) \ Range(t) : Defined(k)

-----------------------------------------------------------------------------
(* C4 *)

\* C4 as claimed: an attribute whose correlation with the target is undefined
\* never appears in the top-K list, and its row and column are present in the
\* matrix with the undefined marker.
C4_UndefinedNeverSelected ==
    (Returned /\ TargetPresent) =>
        \A k \in Keys(Val(corr_series)) \ DefinedKeys :
            /\ k \notin Range(Val(top_5_cols))
            /\ k \in DOMAIN Val(full_corr_matrix)
            /\ IsNaN(Val(full_corr_matrix)[k][target_column])
            /\ IsNaN(Val(full_corr_matrix)[target_column][k])

\* C4, amended: an attribute whose correlation with the target is undefined
\* is in the top-K list only when fewer than 5 attributes have a defined
\* coefficient, and then every defined attribute is in the list before it; its
\* row and column are present in the matrix with the undefined marker.
C4_UndefinedSelectedLast ==
    (Returned /\ TargetPresent) =>
        \A k \in Keys(Val(corr_series)) \ DefinedKeys :
            /\ k \in Range(Val(top_5_cols)) =>
                   /\ Cardinality(DefinedKeys) < 5
                   /\ \A d \in DefinedKeys :
                          /\ d \in Range(Val(top_5_cols))
                          /\ Pos(Val(top_5_cols), d) < Pos(Val(top_5_cols), k)
            /\ k \in DOMAIN Val(full_corr_matrix)
            /\ IsNaN(Val(full_corr_matrix)[k][target_column])
            /\ IsNaN(Val(full_corr_matrix)[target_column][k])

C4_Witness ==
    /\ Returned /\ TargetPresent
    /\ DefinedKeys # {}
    /\ \E k \in Range(Val(top_5_cols)) : ~Defined(k)

-----------------------------------------------------------------------------
(* C5 *)

\* C5: for a target among the numeric columns the keys of the correlation
\* vector are exactly the numeric column names other than the target; the
\* target is never a key.
C5_VectorKeys ==
    (Returned /\ TargetPresent) =>
        /\ target_column \notin Keys(Val(corr_series))
        /\ Keys(Val(corr_series)) = NumericNames \ {target_column}
        /\ Len(Val(corr_series)) = Cardinality(NumericNames) - 1

C5_Witness ==
    /\ Returned /\ TargetPresent
    /\ Cardinality(Keys(Val(corr_series))) >= 2
    /\ AllNames # NumericNames

-----------------------------------------------------------------------------
(* C6 *)

\* Every order of the elements of S.
RECURSIVE Perms(_)
Perms(S) ==
    IF S = {} THEN {<<>>}
    ELSE UNION { { <<x>> \o s : s \in Perms(S \ {x}) } : x \in S }

\* The correlation vector is in descending order of signed coefficient.
VectorDescending ==
    LET cs == Val(corr_series)
    IN  \A i, j \in 1..Len(cs) :
            i < j => /\ (~IsNaN(cs[i].r) /\ ~IsNaN(cs[j].r)) => ~Less(cs[i].r, cs[j].r)
                     /\ IsNaN(cs[i].r) => IsNaN(cs[j].r)

\* C6 as claimed: the correlation vector is in descending order of signed
\* coefficient, and the top-K list is the same whatever order the entries of
\* the correlation vector are in: for every order of the entries, the list
\* returned is what line 52 yields.
C6_TopKSameForEveryOrder ==
    (Returned /\ TargetPresent) =>
        /\ VectorDescending
        /\ \A p \in Perms(Range(Val(corr_series))) :
               Val(top_5_cols) \in top_5_abs_corr(p)

\* C6, amended: the correlation vector is in descending order of signed
\* coefficient, undefined entries last, also with the target's entry removed;
\* in the top-K list an entry of greater absolute coefficient stands before
\* one of smaller absolute coefficient wherever the two stand in the vector,
\* so that the order of the list follows from the absolute coefficients
\* wherever these differ.  The order of entries of equal absolute coefficient
\* and of undefined entries is left open.
C6_OrderedBySignedAndByMagnitude ==
    (Returned /\ TargetPresent) =>
        LET t == Val(top_5_cols)
        IN  /\ VectorDescending
            /\ target_column \notin Keys(Val(corr_series))
            /\ \A a, b \in Range(t) :
                   (Defined(a) /\ Defined(b) /\ Less(Mag(b), Mag(a))) => Pos(t, a) < Pos(t, b)

\* The top-K list puts a first whereas the vector puts b first.
C6_Witness ==
    /\ Returned /\ TargetPresent
    /\ LET t == Val(top_5_cols)
           ix == Index(Val(corr_series))
       IN  \E a, b \in Range(t) :
               /\ Defined(a) /\ Defined(b) /\ Less(Mag(b), Mag(a))
               /\ Pos(ix, b) < Pos(ix, a)
               /\ Pos(t, a) < Pos(t, b)

-----------------------------------------------------------------------------
(* C7 *)

\* C7: analyze_correlation shows nothing in the user interface and leaves the
\* data frame as it was.
C7_AnalyzerSilent ==
    Returned =>
        /\ \A i \in 1..Len(page) : ~ByAnalyzer(page[i])
        /\ df = Some(user_file.table)

-----------------------------------------------------------------------------
(* C8 *)

\* C8: when the loaded data frame has no numeric column the run shows a
\* warning, returns no analysis output, renders no summary, scatter chart or
\* heatmap, and reaches its end (the warning of line 143 is the last element).
C8_NoNumericColumns ==
    (~IsNone(df) /\ NumericNames = {}) =>
        /\ IsNone(corr_series) /\ IsNone(full_corr_matrix) /\ IsNone(top_5_cols)
        /\ Charts = <<>>
        /\ page[Len(page)] = MainWarning

C8_Witness ==
    /\ ~IsNone(df) /\ NumericNames = {}
    /\ AllNames # {}

-----------------------------------------------------------------------------
(* C9 *)

\* C9: entries of equal absolute correlation keep, in the top-K list, the
\* relative order they have in the correlation vector, and at the cut-off the
\* entry that comes first in the vector is the one selected.
C9_StableTies ==
    (Returned /\ TargetPresent) =>
        LET t == Val(top_5_cols)
            ix == Index(Val(corr_series))
        IN  /\ \A a, b \in Range(t) :
                   (Defined(a) /\ Defined(b) /\ Mag(a) = Mag(b) /\ Pos(ix, a) < Pos(ix, b))
                       => Pos(t, a) < Pos(t, b)
            /\ \A a \in Range(t), b \in DefinedKeys \ Range(t) :
                   (Defined(a) /\ Mag(a) = Mag(b)) => Pos(ix, a) < Pos(ix, b)

-----------------------------------------------------------------------------
(* C10 *)

\* C10: a run that loaded a data frame renders charts exactly when the
\* analysis returned a correlation vector with at least one entry; it then
\* renders the summary, one scatter chart per top-K entry in top-K order (each
\* entry a column of the data frame and a key of the vector), and one heatmap,
\* in this order; when the target is the only numeric column it renders the
\* warning and no chart.
C10_RenderedCharts ==
    ~IsNone(df) =>
        /\ (Charts # <<>>) <=> (~IsNone(corr_series) /\ Val(corr_series) # <<>>)
        /\ Charts # <<>> =>
               LET t == Val(top_5_cols)
               IN  /\ Len(Charts) = Len(t) + 2
                   /\ Charts[1].kind = "summary"
                   /\ \A i \in 1..Len(t) :
                          /\ Charts[i + 1] = Elem("scatter", t[i], target_column, "main")
                          /\ t[i] \in AllNames
                          /\ t[i] \in Keys(Val(corr_series))
                   /\ Charts[Len(t) + 2].kind = "heatmap"
        /\ NumericNames = {target_column} =>
               Charts = <<>> /\ page[Len(page)] = MainWarning

C10_Witness ==
    /\ ~IsNone(df)
    /\ Len(Charts) = 7
    /\ Cardinality(Keys(Val(corr_series))) > 5
    /\ picks = 1

====
